---- MODULE Spec2Model ----
(***************************************************************************)
(* A model of configvars: the literal parser and interactive input loop   *)
(* (__main__utils.py, __main__.py), the read-only mapping and the JSON    *)
(* file storage (storage.py), and the retrieval API (api.py, __init__.py). *)
(*                                                                         *)
(* Texts that the code scans (input lines, storage names, paths, file     *)
(* contents) are sequences of one-character strings.  Exception messages   *)
(* are TLA+ strings.  A Python value is a record [t, n, e, s]:             *)
(*   int    [t |-> "int",   n |-> the integer]                             *)
(*   float  [t |-> "float", n, e]  the decimal n * 10^e, n not a multiple  *)
(*          of 10 unless it is 0 (values stay far from the limits of a     *)
(*          64-bit float)                                                  *)
(*   str    [t |-> "str",   s |-> its characters]                          *)
(*   dict   [t |-> "dict",  n |-> its address in the heap]                 *)
(*   method [t |-> "method", s |-> its name]                               *)
(*   bool   [t |-> "bool",  n |-> 1 or 0]                                  *)
(*   list   [t |-> "list",  s |-> its elements]                            *)
(*   class  [t |-> "type"]                                                 *)
(* A dict is a sequence of <<key, value>> pairs in insertion order.        *)
(***************************************************************************)
EXTENDS Integers, Sequences, FiniteSets, TLC

VARIABLES
    src,          \* parser: the line handed to parse_key_value
    parse_pc,     \* parser: "ready" before the call, "done" after it
    parsed,       \* parser: outcome of parse_key_value(src)
    pc,           \* main(): "name", "input", "store", "done" or "raised"
    name,         \* main(): the storage name read by main
    vars_dict,    \* get_vars_dict: the dict being built
    entered,      \* get_vars_dict: the lines read so far (history)
    exc,          \* main(): the exception that ended main, if any
    stdout,       \* main(): the messages written to sys.stdout
    heap,         \* the dict objects, by address
    self_dict,    \* _AttrFrozenDict instance: its __dict__
    snapshot,     \* the source mapping's items when the wrapper was built (history)
    fs,           \* file system: [dirs, files]
    lastStored,   \* storage name -> the dict of the last successful store (history)
    _held_vars,   \* api._held_vars
    holdLog,      \* the successful hold calls, oldest first (history)
    decorator,    \* the closure load(name, vars_) returned: [name, vars_]
    cls,          \* the class handed to the decorator: [name, dict]
    result        \* outcome of the last library operation

vars == <<src, parse_pc, parsed, pc, name, vars_dict, entered, exc, stdout,
          heap, self_dict, snapshot, fs, lastStored, _held_vars, holdLog,
          decorator, cls, result>>

parserVars == <<src, parse_pc, parsed>>
mainVars == <<pc, name, vars_dict, entered, exc, stdout>>
frozenVars == <<heap, self_dict, snapshot>>
holdVars == <<_held_vars, holdLog>>
loadVars == <<decorator, cls>>

(***************************************************************************)
(* Bounds of the model.                                                    *)
(***************************************************************************)
MaxLineLen == 5
MaxValLen == 3
MaxLines == 3
MaxItems == 2
MaxHolds == 2

(***************************************************************************)
(* Python values                                                           *)
(***************************************************************************)
None == [t |-> "none", n |-> 0, e |-> 0, s |-> <<>>]
IntObj(k) == [t |-> "int", n |-> k, e |-> 0, s |-> <<>>]
FloatObj(m, x) == [t |-> "float", n |-> m, e |-> x, s |-> <<>>]
StrObj(chars) == [t |-> "str", n |-> 0, e |-> 0, s |-> chars]
DictRef(a) == [t |-> "dict", n |-> a, e |-> 0, s |-> <<>>]
MethodObj(nm) == [t |-> "method", n |-> 0, e |-> 0, s |-> nm]

Return(v) == [kind |-> "return", exc |-> "", msg |-> "", key |-> <<>>, val |-> v]
Raise(x, m) == [kind |-> "raise", exc |-> x, msg |-> m, key |-> <<>>, val |-> None]
NoOutcome == [kind |-> "none", exc |-> "", msg |-> "", key |-> <<>>, val |-> None]

\* dict operations on a sequence of <<key, value>> pairs
Keys(m) == {m[i][1] : i \in 1..Len(m)}
KeyList(m) == [i \in 1..Len(m) |-> m[i][1]]
Lookup(m, k) == m[CHOOSE i \in 1..Len(m) : m[i][1] = k][2]
DictSet(m, k, v) ==
    IF k \in Keys(m)
    THEN [i \in 1..Len(m) |-> IF m[i][1] = k THEN <<k, v>> ELSE m[i]]
    ELSE Append(m, <<k, v>>)
DictDel(m, k) == SelectSeq(m, LAMBDA p : p[1] # k)

(***************************************************************************)
(* Characters                                                              *)
(***************************************************************************)
Digits == {"0", "1", "2", "3", "4", "5", "6", "7", "8", "9"}
Letters ==
    {"a", "b", "c", "d", "e", "f", "g", "h", "i", "j", "k", "l", "m",
     "n", "o", "p", "q", "r", "s", "t", "u", "v", "w", "x", "y", "z",
     "A", "B", "C", "D", "E", "F", "G", "H", "I", "J", "K", "L", "M",
     "N", "O", "P", "Q", "R", "S", "T", "U", "V", "W", "X", "Y", "Z"}
IdentStart == Letters \cup {"_"}
WordChars == Letters \cup Digits \cup {"_"}
Quotes == {"\"", "'"}
Signs == {"-", "+"}

DigitValue(c) ==
    CASE c = "0" -> 0 [] c = "1" -> 1 [] c = "2" -> 2 [] c = "3" -> 3
      [] c = "4" -> 4 [] c = "5" -> 5 [] c = "6" -> 6 [] c = "7" -> 7
      [] c = "8" -> 8 [] c = "9" -> 9

AllDigits(t) == \A i \in 1..Len(t) : t[i] \in Digits
Tail2(t, i) == SubSeq(t, i, Len(t))

RECURSIVE Pow10(_)
Pow10(k) == IF k = 0 THEN 1 ELSE 10 * Pow10(k - 1)

(***************************************************************************)
(* parse_key_value (__main__utils.py)                                      *)
(***************************************************************************)
\* [a-zA-Z_]\w* matched against the whole of t
IsIdentifier(t) ==
    /\ Len(t) >= 1
    /\ t[1] \in IdentStart
    /\ \A i \in 2..Len(t) : t[i] \in WordChars

\* re.fullmatch(r"[a-zA-Z_]\w* ?= ?.+", s); '.' matches anything but a newline
re_line(s) ==
    \E i \in 1..Len(s) :
        /\ IsIdentifier(SubSeq(s, 1, i))
        /\ \E j \in {i, i + 1} :
            /\ j + 1 <= Len(s)
            /\ (j = i + 1 => s[j] = " ")
            /\ s[j + 1] = "="
            /\ \E k \in {j + 1, j + 2} :
                /\ k + 1 <= Len(s)
                /\ (k = j + 2 => s[k] = " ")
                /\ \A q \in (k + 1)..Len(s) : s[q] # "\n"

\* re.match(r"[a-zA-Z_]\w*", s).group(): the longest identifier s starts with
key_match(s) ==
    LET n == CHOOSE n \in 1..Len(s) :
                 /\ IsIdentifier(SubSeq(s, 1, n))
                 /\ (n = Len(s) \/ s[n + 1] \notin WordChars)
    IN SubSeq(s, 1, n)

\* re.search(r"= ?.+", s).group(): from the first '=' that has a character after
\* it to the end of the line
value_match(s) ==
    LET p == CHOOSE p \in 1..(Len(s) - 1) :
                 /\ s[p] = "="
                 /\ \A q \in 1..(p - 1) : s[q] # "="
    IN Tail2(s, p)

RECURSIVE lstrip_chars(_, _)
lstrip_chars(t, chars) ==
    IF t # <<>> /\ t[1] \in chars THEN lstrip_chars(Tail(t), chars) ELSE t

\* lstrip also given the sign characters to strip
lstrip_sign(t) == lstrip_chars(t, {"=", " ", "-", "+"})

\* value_match.group().lstrip("= ")
lstrip(t) == lstrip_chars(t, {"=", " "})

Unsigned(v) == IF v # <<>> /\ v[1] \in Signs THEN Tail(v) ELSE v

\* re.fullmatch(r"[-+]?\d+", value)
re_int(v) == Unsigned(v) # <<>> /\ AllDigits(Unsigned(v))

\* digits '.' digits with at least minInt digits before and minFrac after the dot
DotForm(u, minInt, minFrac) ==
    \E i \in 1..Len(u) :
        /\ u[i] = "."
        /\ i - 1 >= minInt
        /\ Len(u) - i >= minFrac
        /\ AllDigits(SubSeq(u, 1, i - 1))
        /\ AllDigits(Tail2(u, i + 1))

ExpForm(u) ==
    \E i \in 2..Len(u) :
        /\ u[i] \in {"E", "e"}
        /\ AllDigits(SubSeq(u, 1, i - 1))
        /\ Unsigned(Tail2(u, i + 1)) # <<>>
        /\ AllDigits(Unsigned(Tail2(u, i + 1)))

\* the three alternatives of the float pattern: 'x.y' or 'x.', '.x', 'xEy'
re_float_optional_dot(v) ==
    \/ DotForm(Unsigned(v), 1, 0)
    \/ DotForm(Unsigned(v), 0, 1)
    \/ ExpForm(Unsigned(v))
    \/ (Unsigned(v) # <<>> /\ AllDigits(Unsigned(v)))

re_float(v) ==
    \/ DotForm(Unsigned(v), 1, 0)
    \/ DotForm(Unsigned(v), 0, 1)
    \/ ExpForm(Unsigned(v))

\* re.fullmatch("[\"'].*[\"']", value, flags=re.DOTALL)
re_str(v) == Len(v) >= 2 /\ v[1] \in Quotes /\ v[Len(v)] \in Quotes

RECURSIVE DigitsValue(_, _)
DigitsValue(t, acc) ==
    IF t = <<>> THEN acc ELSE DigitsValue(Tail(t), 10 * acc + DigitValue(t[1]))

SignOf(v) == IF v # <<>> /\ v[1] = "-" THEN -1 ELSE 1

\* int(value) for a value of the integer pattern
py_int(v) == IntObj(SignOf(v) * DigitsValue(Unsigned(v), 0))

RECURSIVE Normalize(_, _)
Normalize(m, x) ==
    IF m = 0 THEN FloatObj(0, 0)
    ELSE IF m % 10 = 0 THEN Normalize(m \div 10, x + 1)
    ELSE FloatObj(m, x)

\* float(value) for a value of the float pattern
py_float(v) ==
    LET u == Unsigned(v)
        hasDot == \E i \in 1..Len(u) : u[i] = "."
        cut == CHOOSE i \in 1..Len(u) : u[i] \in {".", "E", "e"}
        head == SubSeq(u, 1, cut - 1)
        rest == Tail2(u, cut + 1)
    IN IF hasDot
       THEN Normalize(SignOf(v) * DigitsValue(head \o rest, 0), 0 - Len(rest))
       ELSE Normalize(SignOf(v) * DigitsValue(head, 0),
                      SignOf(rest) * DigitsValue(Unsigned(rest), 0))

\* operator.itemgetter(slice(1, -1, None))(value)
strip_quotes(v) == StrObj(SubSeq(v, 2, Len(v) - 1))

\* the list re_type_matches: <<re_match, type, constructor>>
re_type_matches(value) ==
    << [re_match |-> re_int(value), type |-> "int", constructor |-> "none"],
       [re_match |-> re_float(value), type |-> "float", constructor |-> "none"],
       [re_match |-> re_str(value), type |-> "str", constructor |-> "itemgetter"] >>

RECURSIVE Join(_, _)
Join(sep, names) ==
    IF names = <<>> THEN ""
    ELSE IF Len(names) = 1 THEN names[1]
    ELSE names[1] \o sep \o Join(sep, Tail(names))

Convert(match, value) ==
    IF match.constructor # "none" THEN strip_quotes(value)
    ELSE IF match.type = "int" THEN py_int(value)
    ELSE py_float(value)

parse_value(s) == lstrip(value_match(s))

parse_key_value(s) ==
    IF ~re_line(s) THEN Raise("SyntaxError", "invalid syntax")
    ELSE
        LET value == parse_value(s)
            all == re_type_matches(value)
            matches == SelectSeq(all, LAMBDA m : m.re_match)
        IN IF Len(matches) = 0
           THEN Raise("TypeError", "invalid type used. allowed types: "
                        \o Join(", ", [i \in 1..Len(all) |-> all[i].type]))
           ELSE IF Len(matches) > 1
           THEN Raise("Exception", "regexes match more than one type")
           ELSE [kind |-> "return", exc |-> "", msg |-> "",
                 key |-> key_match(s), val |-> Convert(matches[1], value)]

(***************************************************************************)
(* The file system under open() and os.makedirs(): absolute POSIX paths.   *)
(* fs.dirs is the set of directories and fs.files maps each regular file   *)
(* to its text, both keyed by the sequence of the path's components.       *)
(***************************************************************************)
RECURSIVE SplitPath(_, _, _)
SplitPath(t, cur, acc) ==
    IF t = <<>> THEN Append(acc, cur)
    ELSE IF t[1] = "/" THEN SplitPath(Tail(t), <<>>, Append(acc, cur))
    ELSE SplitPath(Tail(t), Append(cur, t[1]), acc)

\* path walk: every component but the last must name a directory
RECURSIVE Walk(_, _, _)
Walk(f, comps, cur) ==
    IF comps = <<>> THEN [err |-> "", path |-> cur]
    ELSE LET c == Head(comps)
             last == Len(comps) = 1
             next == Append(cur, c)
         IN IF c = <<>> \/ c = <<".">> THEN Walk(f, Tail(comps), cur)
            ELSE IF c = <<".", ".">>
            THEN Walk(f, Tail(comps),
                      IF cur = <<>> THEN cur ELSE SubSeq(cur, 1, Len(cur) - 1))
            ELSE IF last THEN [err |-> "", path |-> next]
            ELSE IF next \in f.dirs THEN Walk(f, Tail(comps), next)
            ELSE IF next \in DOMAIN f.files THEN [err |-> "ENOTDIR", path |-> next]
            ELSE [err |-> "ENOENT", path |-> next]

Resolve(f, path) == Walk(f, SplitPath(path, <<>>, <<>>), <<>>)

OSError(err, path) ==
    CASE err = "ENOENT" -> Raise("FileNotFoundError", "No such file or directory")
      [] err = "ENOTDIR" -> Raise("NotADirectoryError", "Not a directory")
      [] err = "EISDIR" -> Raise("IsADirectoryError", "Is a directory")

\* open(path, "w") followed by writing text: [out, fs]
open_w(f, path, text) ==
    LET r == Resolve(f, path)
    IN IF r.err # "" THEN [out |-> OSError(r.err, path), fs |-> f]
       ELSE IF r.path \in f.dirs THEN [out |-> OSError("EISDIR", path), fs |-> f]
       ELSE [out |-> Return(None),
             fs |-> [f EXCEPT !.files =
                        [q \in DOMAIN f.files \cup {r.path} |->
                            IF q = r.path THEN text ELSE f.files[q]]]]

\* open(path, "r") and reading the whole file: [out, text]
open_r(f, path) ==
    LET r == Resolve(f, path)
    IN IF r.err # "" THEN [out |-> OSError(r.err, path), text |-> <<>>]
       ELSE IF r.path \in f.dirs THEN [out |-> OSError("EISDIR", path), text |-> <<>>]
       ELSE IF r.path \notin DOMAIN f.files
       THEN [out |-> OSError("ENOENT", path), text |-> <<>>]
       ELSE [out |-> Return(None), text |-> f.files[r.path]]

\* os.makedirs(path, exist_ok=True)
makedirs(f, path) ==
    LET comps == SelectSeq(SplitPath(path, <<>>, <<>>), LAMBDA c : c # <<>>)
    IN [f EXCEPT !.dirs = f.dirs \cup {SubSeq(comps, 1, k) : k \in 0..Len(comps)}]

(***************************************************************************)
(* json.dump and json.load for a dict of int, float and str values         *)
(* (floats between 1e-4 and 1e16 in magnitude, which repr() writes in      *)
(* positional notation).                                                   *)
(***************************************************************************)
DigitChar(k) ==
    CASE k = 0 -> "0" [] k = 1 -> "1" [] k = 2 -> "2" [] k = 3 -> "3"
      [] k = 4 -> "4" [] k = 5 -> "5" [] k = 6 -> "6" [] k = 7 -> "7"
      [] k = 8 -> "8" [] k = 9 -> "9"

RECURSIVE NatRepr(_)
NatRepr(k) ==
    IF k < 10 THEN <<DigitChar(k)>>
    ELSE Append(NatRepr(k \div 10), DigitChar(k % 10))

Abs(k) == IF k < 0 THEN 0 - k ELSE k
IntRepr(k) == IF k < 0 THEN <<"-">> \o NatRepr(0 - k) ELSE NatRepr(k)

RECURSIVE ZeroPad(_, _)
ZeroPad(t, width) == IF Len(t) >= width THEN t ELSE ZeroPad(<<"0">> \o t, width)

\* float.__repr__
FloatRepr(v) ==
    IF v.e >= 0 THEN IntRepr(v.n * Pow10(v.e)) \o <<".", "0">>
    ELSE LET k == 0 - v.e
             a == Abs(v.n)
         IN (IF v.n < 0 THEN <<"-">> ELSE <<>>)
            \o NatRepr(a \div Pow10(k)) \o <<".">>
            \o ZeroPad(NatRepr(a % Pow10(k)), k)

RECURSIVE EscapeString(_)
EscapeString(t) ==
    IF t = <<>> THEN <<>>
    ELSE (CASE t[1] = "\"" -> <<"\\", "\"">>
            [] t[1] = "\\" -> <<"\\", "\\">>
            [] t[1] = "\n" -> <<"\\", "n">>
            [] OTHER -> <<t[1]>>) \o EscapeString(Tail(t))

encode_string(t) == <<"\"">> \o EscapeString(t) \o <<"\"">>

encode_value(v) ==
    CASE v.t = "int" -> IntRepr(v.n)
      [] v.t = "float" -> FloatRepr(v)
      [] v.t = "str" -> encode_string(v.s)

RECURSIVE encode_items(_)
encode_items(m) ==
    IF m = <<>> THEN <<>>
    ELSE encode_string(m[1][1]) \o <<":", " ">> \o encode_value(m[1][2])
         \o (IF Len(m) = 1 THEN <<>> ELSE <<",", " ">> \o encode_items(Tail(m)))

json_dumps(m) == <<"{">> \o encode_items(m) \o <<"}">>

RECURSIVE skip_ws(_, _)
skip_ws(t, i) == IF i <= Len(t) /\ t[i] \in {" ", "\n"} THEN skip_ws(t, i + 1) ELSE i

\* the string whose opening quote is just before position i: [s, end]
RECURSIVE scanstring(_, _, _)
scanstring(t, i, acc) ==
    IF t[i] = "\"" THEN [s |-> acc, end |-> i + 1]
    ELSE IF t[i] = "\\"
    THEN scanstring(t, i + 2, Append(acc, IF t[i + 1] = "n" THEN "\n" ELSE t[i + 1]))
    ELSE scanstring(t, i + 1, Append(acc, t[i]))

NumberChars == Digits \cup {"-", "+", ".", "e", "E"}

RECURSIVE number_end(_, _)
number_end(t, i) ==
    IF i <= Len(t) /\ t[i] \in NumberChars THEN number_end(t, i + 1) ELSE i

\* a JSON number: integer part, optional fraction, optional exponent
json_number(u) ==
    LET marks == {i \in 1..Len(u) : u[i] \in {".", "e", "E"}}
        exps == {i \in 1..Len(u) : u[i] \in {"e", "E"}}
        dots == {i \in 1..Len(u) : u[i] = "."}
        mantEnd == IF exps = {} THEN Len(u) ELSE (CHOOSE i \in exps : TRUE) - 1
        intEnd == IF dots = {} THEN mantEnd ELSE (CHOOSE i \in dots : TRUE) - 1
        frac == SubSeq(u, intEnd + 2, mantEnd)
        expo == IF exps = {} THEN <<"0">> ELSE Tail2(u, mantEnd + 2)
    IN IF marks = {} THEN py_int(u)
       ELSE Normalize(SignOf(u) * DigitsValue(Unsigned(SubSeq(u, 1, intEnd)) \o frac, 0),
                      SignOf(expo) * DigitsValue(Unsigned(expo), 0) - Len(frac))

\* the value starting at position i: [val, end]
scan_value(t, i) ==
    IF t[i] = "\""
    THEN LET r == scanstring(t, i + 1, <<>>) IN [val |-> StrObj(r.s), end |-> r.end]
    ELSE LET j == number_end(t, i)
         IN [val |-> json_number(SubSeq(t, i, j - 1)), end |-> j]

\* the members of an object from position i (a key's opening quote) on
RECURSIVE scan_members(_, _, _)
scan_members(t, i, acc) ==
    LET k == scanstring(t, i + 1, <<>>)
        colon == skip_ws(t, k.end)
        v == scan_value(t, skip_ws(t, colon + 1))
        after == skip_ws(t, v.end)
        m == DictSet(acc, k.s, v.val)
    IN IF t[after] = "," THEN scan_members(t, skip_ws(t, after + 1), m) ELSE m

json_loads(t) ==
    LET i == skip_ws(t, 2)
    IN IF t[i] = "}" THEN <<>> ELSE scan_members(t, i, <<>>)

(***************************************************************************)
(* storage.py: settings, _get_storage_location, _store_vars, _load_vars    *)
(***************************************************************************)
\* the package lives in /p, so _SETTINGS["storage_dir"] is "/p/store"
PackageDir == <<"/", "p", "/">>
InitialFs == [dirs |-> {<<>>, << <<"p">> >>}, files |-> <<>>]

\* posixpath.join of two paths
path_join(a, b) ==
    IF b # <<>> /\ b[1] = "/" THEN b
    ELSE IF a = <<>> \/ a[Len(a)] = "/" THEN a \o b
    ELSE a \o <<"/">> \o b

SETTINGS ==
    [storage_dir |-> path_join(PackageDir, <<"s", "t", "o", "r", "e">>),
     file_name |-> <<"{", "n", "a", "m", "e", "}", ".", "j", "s", "o", "n">>]

\* str.format(name=nm) on a template whose only field is {name}
RECURSIVE str_format(_, _)
str_format(t, nm) ==
    IF t = <<>> THEN <<>>
    ELSE IF t[1] = "{"
    THEN LET close == CHOOSE i \in 2..Len(t) :
                          t[i] = "}" /\ \A j \in 2..(i - 1) : t[j] # "}"
         IN nm \o str_format(Tail2(t, close + 1), nm)
    ELSE <<t[1]>> \o str_format(Tail(t), nm)

_get_storage_location(nm, settings) ==
    str_format(path_join(settings.storage_dir, settings.file_name), nm)

\* [out, fs]
_store_vars(f, nm, vars_, settings) ==
    LET store_loc == _get_storage_location(nm, settings)
    IN open_w(makedirs(f, settings.storage_dir), store_loc, json_dumps(vars_))

RECURSIVE Str(_)
Str(t) == IF t = <<>> THEN "" ELSE t[1] \o Str(Tail(t))

\* an _AttrFrozenDict holding a private dict with the given items
AttrFrozenDict(items) == [cls |-> "_AttrFrozenDict", _data |-> items]
NoObject == [cls |-> "NoneType", _data |-> <<>>]

\* [out, obj]: obj is the _AttrFrozenDict returned
_load_vars(f, nm, settings) ==
    LET store_loc == _get_storage_location(nm, settings)
        r == open_r(f, store_loc)
    IN IF r.out.kind = "return"
       THEN [out |-> Return(None), obj |-> AttrFrozenDict(json_loads(r.text))]
       ELSE IF r.out.exc = "FileNotFoundError"
       THEN [out |-> Raise("NameNotFound", "name '" \o Str(nm) \o "' not found"),
             obj |-> NoObject]
       ELSE [out |-> r.out, obj |-> NoObject]

(***************************************************************************)
(* Values the variables of the other components hold while one component   *)
(* is exercised.                                                           *)
(***************************************************************************)
ParserIdle == src = <<>> /\ parse_pc = "idle" /\ parsed = NoOutcome
MainIdle ==
    /\ pc = "idle" /\ name = <<>> /\ vars_dict = <<>>
    /\ entered = <<>> /\ exc = NoOutcome /\ stdout = <<>>
FrozenIdle == heap = <<>> /\ self_dict = <<>> /\ snapshot = <<>>
StoreIdle == fs = InitialFs /\ lastStored = <<>>
HoldIdle == _held_vars = <<>> /\ holdLog = <<>>
NoDecorator == [name |-> <<>>, vars_ |-> None]
LoadIdle == decorator = NoDecorator /\ cls = [name |-> <<>>, dict |-> <<>>]
NoResult == [op |-> "none", arg |-> <<>>, out |-> NoOutcome, obj |-> NoObject]
ResultIdle == result = NoResult

(***************************************************************************)
(* The parser on its own: parse_key_value applied to one input line.       *)
(***************************************************************************)
ShapeAlphabet == {"A", "_", "1", " ", "=", "-"}
ValueAlphabet == {"0", "1", "-", "+", ".", "e", "'", "\"", "a"}
SampleNames == {<<"A">>, <<"_", "1">>}
SampleSeps == {<<"=">>, <<" ", "=", " ">>}

StringsUpTo(alphabet, n) == UNION {[1..k -> alphabet] : k \in 0..n}

ParserLines ==
    StringsUpTo(ShapeAlphabet, MaxLineLen)
    \cup {nm \o sep \o v : nm \in SampleNames, sep \in SampleSeps,
                           v \in StringsUpTo(ValueAlphabet, MaxValLen)}

InitParse ==
    /\ src \in ParserLines
    /\ parse_pc = "ready"
    /\ parsed = NoOutcome
    /\ MainIdle /\ FrozenIdle /\ StoreIdle /\ HoldIdle /\ LoadIdle /\ ResultIdle

Parse ==
    /\ parse_pc = "ready"
    /\ parsed' = parse_key_value(src)
    /\ parse_pc' = "done"
    /\ UNCHANGED <<loadVars, src, mainVars, frozenVars, fs, lastStored, holdVars, result>>

NextParse == Parse

SpecParse == InitParse /\ [][NextParse]_vars

(***************************************************************************)
(* __main__.py and get_vars_dict: the interactive entry point.             *)
(***************************************************************************)
TypeName(v) == v.t
ExceptionObj(klass, m) == [t |-> klass, n |-> 0, e |-> 0, s |-> <<m>>]

\* a + b for the operands the input loop adds: str + str concatenates; an
\* exception has no __add__ and str no __radd__
py_add(a, b) ==
    IF a.t = "str" /\ b.t = "str" THEN Return(StrObj(a.s \o b.s))
    ELSE Raise("TypeError", "unsupported operand type(s) for +: '"
                   \o TypeName(a) \o "' and '" \o TypeName(b) \o "'")

\* str(value) as an f-string formats it
py_str(v) ==
    CASE v.t = "int" -> Str(IntRepr(v.n))
      [] v.t = "float" -> Str(FloatRepr(v))
      [] v.t = "str" -> Str(v.s)

StartMessage ==
    "Enter the variables you want to store. An empty string will save the variables and exit."
    \o "\n"

StoredMessage(key, value) ==
    "key: " \o Str(key) \o " (str), value: " \o py_str(value)
    \o " (" \o TypeName(value) \o ")" \o "\n"

MainNames == {<<"x">>, <<"a", "/", "x">>}
LoopLines ==
    { <<"A", "=", "1">>, <<"A", " ", "=", " ", "2">>, <<"B", "=", "'", "x", "'">>,
      <<"F", " ", "=", " ", ".", "5">>, <<"b", "a", "d">>, <<"A", " ", "=", " ", "x">>,
      <<>> }

InitMain ==
    /\ pc = "name" /\ name = <<>> /\ vars_dict = <<>>
    /\ entered = <<>> /\ exc = NoOutcome /\ stdout = <<>>
    /\ fs = InitialFs /\ lastStored = <<>>
    /\ ParserIdle /\ FrozenIdle /\ HoldIdle /\ LoadIdle /\ ResultIdle

\* main: name = input("storage name: "), then get_vars_dict up to its loop
InputName(nm) ==
    /\ pc = "name"
    /\ name' = nm
    /\ vars_dict' = <<>>
    /\ stdout' = Append(stdout, StartMessage)
    /\ pc' = "input"
    /\ UNCHANGED <<loadVars, entered, exc, parserVars, frozenVars, fs, lastStored,
                   holdVars, result>>

\* one turn of get_vars_dict's loop on the line the user enters
ReadLine(line) ==
    /\ pc = "input"
    /\ Len(entered) < MaxLines \/ line = <<>>
    /\ entered' = Append(entered, line)
    /\ IF line = <<>>
       THEN pc' = "store" /\ UNCHANGED <<vars_dict, stdout, exc>>
       ELSE LET r == parse_key_value(line)
            IN IF r.kind = "raise"
               THEN LET text == py_add(ExceptionObj(r.exc, r.msg), StrObj(<<"\n">>))
                    IN IF text.kind = "raise"
                       THEN /\ pc' = "raised"
                            /\ exc' = text
                            /\ UNCHANGED <<vars_dict, stdout>>
                       ELSE /\ stdout' = Append(stdout, Str(text.val.s))
                            /\ UNCHANGED <<pc, vars_dict, exc>>
               ELSE /\ vars_dict' = DictSet(vars_dict, r.key, r.val)
                    /\ stdout' = Append(stdout, StoredMessage(r.key, r.val))
                    /\ UNCHANGED <<pc, exc>>
    /\ UNCHANGED <<loadVars, name, parserVars, frozenVars, fs, lastStored,
                   holdVars, result>>

\* main: _store_vars(name, vars_dict, settings=SETTINGS)
StoreEntered ==
    /\ pc = "store"
    /\ LET r == _store_vars(fs, name, vars_dict, SETTINGS)
       IN /\ fs' = r.fs
          /\ IF r.out.kind = "raise"
             THEN pc' = "raised" /\ exc' = r.out
             ELSE pc' = "done" /\ UNCHANGED exc
    /\ UNCHANGED <<loadVars, name, vars_dict, entered, stdout, parserVars, frozenVars,
                   lastStored, holdVars, result>>

NextMain ==
    \/ \E nm \in MainNames : InputName(nm)
    \/ \E line \in LoopLines : ReadLine(line)
    \/ StoreEntered

SpecMain == InitMain /\ [][NextMain]_vars

\* the dict of the assignments of the lines that parse, in order
RECURSIVE Collected(_)
Collected(ls) ==
    IF ls = <<>> THEN <<>>
    ELSE LET before == Collected(SubSeq(ls, 1, Len(ls) - 1))
             line == ls[Len(ls)]
             r == parse_key_value(line)
         IN IF line = <<>> \/ r.kind = "raise" THEN before
            ELSE DictSet(before, r.key, r.val)

\* C7: a line that fails to parse is reported and the loop keeps reading; the
\* loop ends at the empty line and returns exactly the assignments of the
\* lines that parsed.
C7_BadLineRecovered ==
    /\ (/\ entered # <<>>
        /\ entered[Len(entered)] # <<>>
        /\ parse_key_value(entered[Len(entered)]).kind = "raise")
           => pc = "input" /\ exc = NoOutcome /\ Len(stdout) = Len(entered) + 1
    /\ (entered # <<>> /\ entered[Len(entered)] = <<>>)
           => pc \in {"store", "done", "raised"} /\ vars_dict = Collected(entered)

(***************************************************************************)
(* The storage functions on their own: _store_vars and _load_vars called   *)
(* in any order, with any of the names and Variable Sets below.            *)
(***************************************************************************)
StorageNames ==
    { <<"x">>, <<"y">>, <<".", "/", "x">>, <<"a", "/", "x">>,
      <<"x", ".", "j", "s", "o", "n", "/", "y">> }

VarSets ==
    { <<>>,
      << <<<<"A">>, IntObj(1)>> >>,
      << <<<<"A">>, IntObj(-12)>>, <<<<"B">>, FloatObj(5, -1)>> >>,
      << <<<<"B">>, StrObj(<<"q", "\"", "\\">>)>>, <<<<"A">>, FloatObj(2, 0)>> >> }

NeverStored == [stored |-> FALSE, items |-> <<>>]

InitStore ==
    /\ fs = InitialFs
    /\ lastStored = [nm \in StorageNames |-> NeverStored]
    /\ ParserIdle /\ MainIdle /\ FrozenIdle /\ HoldIdle /\ LoadIdle /\ ResultIdle

Store(nm, vars_) ==
    /\ LET r == _store_vars(fs, nm, vars_, SETTINGS)
       IN /\ fs' = r.fs
          /\ result' = [op |-> "store", arg |-> nm, out |-> r.out, obj |-> NoObject]
          /\ lastStored' = IF r.out.kind = "return"
                           THEN [lastStored EXCEPT ![nm] = [stored |-> TRUE, items |-> vars_]]
                           ELSE lastStored
    /\ UNCHANGED <<loadVars, parserVars, mainVars, frozenVars, holdVars>>

Load(nm) ==
    /\ LET r == _load_vars(fs, nm, SETTINGS)
       IN result' = [op |-> "load", arg |-> nm, out |-> r.out, obj |-> r.obj]
    /\ UNCHANGED <<loadVars, fs, lastStored, parserVars, mainVars, frozenVars, holdVars>>

NextStore ==
    \/ \E nm \in StorageNames : \E vars_ \in VarSets : Store(nm, vars_)
    \/ \E nm \in StorageNames : Load(nm)

SpecStore == InitStore /\ [][NextStore]_vars

\* C3: load(X) returns a mapping equal to the Variable Set most recently
\* stored under X, whatever was stored under other names in between.
C3_LastWriteWins ==
    (result.op = "load" /\ lastStored[result.arg].stored)
        => /\ result.out.kind = "return"
           /\ result.obj._data = lastStored[result.arg].items

\* C4: load(X) raises NameNotFound if and only if nothing was stored under X
\* before, and fails with no other error.
C4_NameNotFoundIffNeverStored ==
    result.op = "load"
        => /\ (result.out.exc = "NameNotFound") <=> ~lastStored[result.arg].stored
           /\ result.out.kind = "raise" => result.out.exc = "NameNotFound"

(***************************************************************************)
(* _AttrFrozenDict (storage.py), built from a source dict that the caller  *)
(* keeps and may go on changing.  heap[1] is the source dict; the wrapper  *)
(* instance's __dict__ is self_dict.                                       *)
(***************************************************************************)
K_PIN == <<"P", "I", "N">>
K_USER == <<"U", "S", "E", "R">>
K_data == <<"_", "d", "a", "t", "a">>
K_iter == <<"_", "_", "i", "t", "e", "r", "_", "_">>

\* attributes found on the class by normal lookup: the methods the class defines
ClassAttrs ==
    { <<"_", "_", "s", "e", "t", "a", "t", "t", "r", "_", "_">>,
      <<"_", "_", "s", "e", "t", "i", "t", "e", "m", "_", "_">>,
      <<"_", "_", "d", "e", "l", "a", "t", "t", "r", "_", "_">>,
      <<"_", "_", "d", "e", "l", "i", "t", "e", "m", "_", "_">>,
      <<"_", "_", "i", "n", "i", "t", "_", "_">>,
      <<"_", "_", "g", "e", "t", "i", "t", "e", "m", "_", "_">>,
      <<"_", "_", "g", "e", "t", "a", "t", "t", "r", "_", "_">>,
      <<"_", "_", "e", "q", "_", "_">>,
      K_iter,
      <<"_", "_", "r", "e", "p", "r", "_", "_">> }

\* frozen_method, as _frozen(msg) builds it (every use passes a message)
_frozen(msg) == Raise("FrozenError", msg)

__setattr__ == _frozen("cannot set attribute")
__setitem__ == _frozen("cannot set item")
__delattr__ == _frozen("cannot delete attribute")
__delitem_copied == _frozen("cannot delete attribute")
__delitem__ == _frozen("cannot delete item")

\* __init__ keeping the argument itself instead of building a new dict from it
__init___alias(h, arg) ==
    [heap |-> h, self_dict |-> << <<K_data, DictRef(arg)>> >>]

\* self.__dict__["_data"] = dict(*args, **kwargs): a new dict with arg's items
__init__(h, arg) ==
    [heap |-> Append(h, h[arg]), self_dict |-> << <<K_data, DictRef(Len(h) + 1)>> >>]

\* repr(key), the argument of the KeyError a missing key raises
KeyErrorOf(k) == Raise("KeyError", "'" \o Str(k) \o "'")

\* self._data[name]: self._data is found in the instance's __dict__
data_getitem(h, sd, nm) ==
    LET d == h[Lookup(sd, K_data).n]
    IN IF nm \in Keys(d) THEN Return(Lookup(d, nm)) ELSE KeyErrorOf(nm)

__getitem__(h, sd, nm) == data_getitem(h, sd, nm)
__getattr__(h, sd, nm) == data_getitem(h, sd, nm)

\* fd.nm: object.__getattribute__ looks in the instance's __dict__, then on the
\* class, and only when both fail calls __getattr__
getattribute(h, sd, nm) ==
    IF nm \in Keys(sd) THEN Return(Lookup(sd, nm))
    ELSE IF nm \in ClassAttrs THEN Return(MethodObj(nm))
    ELSE __getattr__(h, sd, nm)

DictKeys == {K_PIN, K_USER, K_data}
AccessKeys == DictKeys \cup {K_iter, <<"X">>}
DictValues == {IntObj(9574), StrObj(<<"p", "w">>)}

\* the dicts with at most n items
RECURSIVE DictsUpTo(_)
DictsUpTo(n) ==
    IF n = 0 THEN {<<>>}
    ELSE LET smaller == DictsUpTo(n - 1)
         IN smaller \cup {Append(m, <<k, v>>) :
                             m \in {x \in smaller : Len(x) = n - 1},
                             k \in DictKeys, v \in DictValues}

SourceDicts == {m \in DictsUpTo(MaxItems) : Cardinality(Keys(m)) = Len(m)}

InitFrozen ==
    /\ \E m \in SourceDicts :
          /\ heap = __init__(<<m>>, 1).heap
          /\ self_dict = __init__(<<m>>, 1).self_dict
          /\ snapshot = m
    /\ ParserIdle /\ MainIdle /\ StoreIdle /\ HoldIdle /\ LoadIdle /\ ResultIdle

Outcome(op, k, out) == [op |-> op, arg |-> k, out |-> out, obj |-> NoObject]
wrapperFrame ==
    <<heap, self_dict, snapshot, parserVars, mainVars, fs, lastStored, holdVars,
      loadVars>>

\* fd[k]
GetItem(k) ==
    /\ result' = Outcome("getitem", k, __getitem__(heap, self_dict, k))
    /\ UNCHANGED wrapperFrame

\* fd.k
GetAttr(k) ==
    /\ result' = Outcome("getattr", k, getattribute(heap, self_dict, k))
    /\ UNCHANGED wrapperFrame

\* fd[k] = v
SetItem(k, v) ==
    /\ result' = Outcome("setitem", k, __setitem__)
    /\ UNCHANGED wrapperFrame

\* fd.k = v
SetAttr(k, v) ==
    /\ result' = Outcome("setattr", k, __setattr__)
    /\ UNCHANGED wrapperFrame

\* del fd[k]
DelItem(k) ==
    /\ result' = Outcome("delitem", k, __delitem__)
    /\ UNCHANGED wrapperFrame

\* del fd.k
DelAttr(k) ==
    /\ result' = Outcome("delattr", k, __delattr__)
    /\ UNCHANGED wrapperFrame

\* the caller changes the dict the wrapper was built from: d[k] = v
SourceSet(k, v) ==
    /\ k \in Keys(heap[1]) \/ Len(heap[1]) < MaxItems
    /\ heap' = [heap EXCEPT ![1] = DictSet(heap[1], k, v)]
    /\ result' = [op |-> "source_set", arg |-> k, out |-> Return(None), obj |-> NoObject]
    /\ UNCHANGED <<self_dict, snapshot, parserVars, mainVars, fs, lastStored,
                 holdVars, loadVars>>

\* del d[k]
SourceDel(k) ==
    /\ k \in Keys(heap[1])
    /\ heap' = [heap EXCEPT ![1] = DictDel(heap[1], k)]
    /\ result' = [op |-> "source_del", arg |-> k, out |-> Return(None), obj |-> NoObject]
    /\ UNCHANGED <<self_dict, snapshot, parserVars, mainVars, fs, lastStored,
                 holdVars, loadVars>>

NextFrozen ==
    \/ \E k \in AccessKeys : GetItem(k)
    \/ \E k \in AccessKeys : GetAttr(k)
    \/ \E k \in AccessKeys : \E v \in DictValues : SetItem(k, v)
    \/ \E k \in AccessKeys : \E v \in DictValues : SetAttr(k, v)
    \/ \E k \in AccessKeys : DelItem(k)
    \/ \E k \in AccessKeys : DelAttr(k)
    \/ \E k \in DictKeys : \E v \in DictValues : SourceSet(k, v)
    \/ \E k \in DictKeys : SourceDel(k)

SpecFrozen == InitFrozen /\ [][NextFrozen]_vars

\* the wrapper's private dict
WrapperData == heap[Lookup(self_dict, K_data).n]

\* C1: each of the four mutation operations fails with FrozenError and its own
\* message, for every key, present or absent.
C1_MutationsRejected ==
    /\ result.op = "setitem" => result.out = Raise("FrozenError", "cannot set item")
    /\ result.op = "setattr" => result.out = Raise("FrozenError", "cannot set attribute")
    /\ result.op = "delitem" => result.out = Raise("FrozenError", "cannot delete item")
    /\ result.op = "delattr" => result.out = Raise("FrozenError", "cannot delete attribute")

\* C1 witness: deleting by subscript a key that is present was rejected.
C1_Witness ==
    /\ result.op = "delitem"
    /\ result.arg \in Keys(WrapperData)
    /\ result.out.exc = "FrozenError"

\* C2: the wrapper's keys, their order and their values stay those the source
\* mapping had at construction, whatever is done to the wrapper or the source.
C2_ContentsFixed == WrapperData = snapshot

\* C2 witness: the source was changed after construction and differs from the
\* wrapper's contents.
C2_Witness ==
    /\ result.op \in {"source_set", "source_del"}
    /\ heap[1] # snapshot
    /\ snapshot # <<>>

\* C5: for every key, subscript and attribute access both return the value
\* the mapping holds for it, or both fail with KeyError when it holds none.
C5_AccessStylesAgree ==
    result.op \in {"getitem", "getattr"} =>
        IF result.arg \in Keys(snapshot)
        THEN result.out = Return(Lookup(snapshot, result.arg))
        ELSE result.out.kind = "raise" /\ result.out.exc = "KeyError"

(***************************************************************************)
(* api.hold and the module-level __getattr__ of configvars (__init__.py),  *)
(* with files stored under plain names beforehand or in between.           *)
(***************************************************************************)
\* hold appending to the end of the list instead of inserting at the front
hold_list_appended(held, vars_, reset) ==
    IF reset THEN <<vars_>> ELSE Append(held, vars_)

\* _held_vars[:] = [vars_]  or  _held_vars.insert(0, vars_)
hold_list(held, vars_, reset) ==
    IF reset THEN <<vars_>> ELSE <<vars_>> \o held

\* v[name] on a held _AttrFrozenDict
held_getitem(v, nm) ==
    IF nm \in Keys(v._data) THEN Return(Lookup(v._data, nm)) ELSE KeyErrorOf(nm)

\* the loop of the module's __getattr__ from position i of _held_vars on
RECURSIVE getattr_from(_, _, _)
getattr_from(held, i, nm) ==
    IF i > Len(held)
    THEN Raise("AttributeError",
               "module 'configvars' has no attribute '" \o Str(nm) \o "'")
    ELSE IF held_getitem(held[i], nm).kind = "return" THEN held_getitem(held[i], nm)
    ELSE getattr_from(held, i + 1, nm)

configvars___getattr__(held, nm) == getattr_from(held, 1, nm)

HoldNames == {<<"x">>, <<"y">>, <<"z">>, <<"x", ".", "j", "s", "o", "n", "/", "y">>}
StoredNames == {<<"x">>, <<"y">>}
K_hold == <<"h", "o", "l", "d">>
LookupNames == {<<"A">>, <<"B">>, <<"C">>, K_hold}

\* the names the module's own namespace holds, which normal lookup finds
ModuleNames ==
    { <<"l", "o", "a", "d">>, K_hold,
      <<"_", "h", "e", "l", "d", "_", "v", "a", "r", "s">>,
      <<"_", "i", "t", "e", "r", "t", "o", "o", "l", "s">>,
      <<"_", "_", "a", "l", "l", "_", "_">>,
      <<"_", "_", "g", "e", "t", "a", "t", "t", "r", "_", "_">>,
      <<"_", "_", "d", "i", "r", "_", "_">> }

InitHold ==
    /\ fs = InitialFs
    /\ lastStored = <<>>
    /\ _held_vars = <<>>
    /\ holdLog = <<>>
    /\ ParserIdle /\ MainIdle /\ FrozenIdle /\ LoadIdle /\ ResultIdle

\* a run of the command-line tool, or any caller of _store_vars, writes a file
StoreFile(nm, vars_) ==
    /\ fs' = _store_vars(fs, nm, vars_, SETTINGS).fs
    /\ result' = [op |-> "store", arg |-> nm,
                  out |-> _store_vars(fs, nm, vars_, SETTINGS).out, obj |-> NoObject]
    /\ UNCHANGED <<loadVars, lastStored, holdVars, parserVars, mainVars, frozenVars>>

\* hold(name, reset)
Hold(nm, reset) ==
    /\ Len(holdLog) < MaxHolds
    /\ LET r == _load_vars(fs, nm, SETTINGS)
       IN IF r.out.kind = "raise"
          THEN /\ result' = [op |-> "hold", arg |-> nm, out |-> r.out, obj |-> NoObject]
               /\ UNCHANGED holdVars
          ELSE /\ _held_vars' = hold_list(_held_vars, r.obj, reset)
               /\ holdLog' = Append(holdLog, [vars |-> r.obj._data, reset |-> reset])
               /\ result' = [op |-> "hold", arg |-> nm, out |-> Return(None), obj |-> NoObject]
    /\ UNCHANGED <<loadVars, fs, lastStored, parserVars, mainVars, frozenVars>>

\* configvars.NAME: a name of the module's namespace is found there; for any
\* other name the interpreter calls the module's __getattr__ (PEP 562)
ModuleGetAttr(nm) ==
    /\ result' = IF nm \in ModuleNames
                 THEN [op |-> "module_attr", arg |-> nm,
                       out |-> Return(MethodObj(nm)), obj |-> NoObject]
                 ELSE [op |-> "module_getattr", arg |-> nm,
                       out |-> configvars___getattr__(_held_vars, nm), obj |-> NoObject]
    /\ UNCHANGED <<loadVars, fs, lastStored, holdVars, parserVars, mainVars, frozenVars>>

NextHold ==
    \/ \E nm \in StoredNames : \E vars_ \in VarSets : StoreFile(nm, vars_)
    \/ \E nm \in HoldNames : \E reset \in BOOLEAN : Hold(nm, reset)
    \/ \E nm \in LookupNames : ModuleGetAttr(nm)

SpecHold == InitHold /\ [][NextHold]_vars

\* the holds that count: those since the last one with reset, it included
RECURSIVE Considered(_)
Considered(log) ==
    IF log = <<>> THEN <<>>
    ELSE IF log[Len(log)].reset THEN <<log[Len(log)]>>
    ELSE Append(Considered(SubSeq(log, 1, Len(log) - 1)), log[Len(log)])

\* positions of the considered holds whose set contains nm
Holding(log, nm) == {i \in 1..Len(Considered(log)) : nm \in Keys(Considered(log)[i].vars)}

K___name__ == <<"_", "_", "n", "a", "m", "e", "_", "_">>
K___dict__ == <<"_", "_", "d", "i", "c", "t", "_", "_">>

True == [t |-> "bool", n |-> 1, e |-> 0, s |-> <<>>]
ListObj(items) == [t |-> "list", n |-> 0, e |-> 0, s |-> items]
\* the reference to the decorated class
ClassObj == [t |-> "type", n |-> 0, e |-> 0, s |-> <<>>]

\* class C: pass
NewClass ==
    [name |-> <<"C">>,
     dict |-> << << <<"_", "_", "m", "o", "d", "u", "l", "e", "_", "_">>,
                    StrObj(<<"_", "_", "m", "a", "i", "n", "_", "_">>) >>,
                 << <<"_", "_", "d", "o", "c", "_", "_">>, None >> >>]

\* a == b: numbers (bool included) by value, anything else by type and content
py_eq(a, b) ==
    IF a.t \in {"bool", "int", "float"} /\ b.t \in {"bool", "int", "float"}
    THEN Normalize(a.n, a.e) = Normalize(b.n, b.e)
    ELSE a = b

\* vars_ in ("all", True)
in_all_True(vars_) == py_eq(vars_, StrObj(<<"a", "l", "l">>)) \/ py_eq(vars_, True)

\* the items  for var in vars_  runs over: a list's elements, a str's characters
py_iter(v) == IF v.t = "list" THEN v.s ELSE [i \in 1..Len(v.s) |-> <<v.s[i]>>]

\* setattr(cls, nm, v) on a class, that is type.__setattr__: a data descriptor
\* of type under that name takes the assignment (__name__ accepts a str only
\* and changes the class's name, __dict__ is not writable); any other name is
\* stored in the class's __dict__
type_setattr(c, nm, v) ==
    IF nm = K___name__
    THEN IF v.t = "str"
         THEN [out |-> Return(None), cls |-> [c EXCEPT !.name = v.s]]
         ELSE [out |-> Raise("TypeError", "can only assign string to "
                               \o Str(c.name) \o ".__name__, not '" \o v.t \o "'"),
               cls |-> c]
    ELSE IF nm = K___dict__
    THEN [out |-> Raise("AttributeError",
                        "attribute '__dict__' of 'type' objects is not writable"),
          cls |-> c]
    ELSE [out |-> Return(None), cls |-> [c EXCEPT !.dict = DictSet(c.dict, nm, v)]]

\* getattr(cls, nm) on a class: the data descriptors of type first, then the
\* class's __dict__
type_getattr(c, nm) ==
    IF nm = K___name__ THEN Return(StrObj(c.name))
    ELSE IF nm = K___dict__
    THEN Return([t |-> "mappingproxy", n |-> 0, e |-> 0, s |-> KeyList(c.dict)])
    ELSE IF nm \in Keys(c.dict) THEN Return(Lookup(c.dict, nm))
    ELSE Raise("AttributeError", "type object '" \o Str(c.name)
                   \o "' has no attribute '" \o Str(nm) \o "'")

\* the for loops of load_decorator from position i of names on; guarded is
\* TRUE for the loop whose body is inside try ... except KeyError
RECURSIVE set_each(_, _, _, _, _, _)
set_each(c, names, i, loaded_vars_, nm, guarded) ==
    IF i > Len(names) THEN [out |-> Return(ClassObj), cls |-> c]
    ELSE LET var == names[i]
             item == held_getitem(loaded_vars_, var)
             r == type_setattr(c, var, item.val)
         IN IF item.kind = "raise"
            THEN [out |-> IF guarded
                          THEN Raise("VarNotFound", "variable '" \o Str(var)
                                       \o "' was not found in '" \o Str(nm) \o "'")
                          ELSE item,
                  cls |-> c]
            ELSE IF r.out.kind = "raise" THEN r
            ELSE set_each(r.cls, names, i + 1, loaded_vars_, nm, guarded)

\* load_decorator(cls) of the closure d = [name, vars_]: [out, cls]
load_decorator(f, d, c) ==
    LET r == _load_vars(f, d.name, SETTINGS)
    IN IF r.out.kind = "raise" THEN [out |-> r.out, cls |-> c]
       ELSE IF in_all_True(d.vars_)
       THEN set_each(c, KeyList(r.obj._data), 1, r.obj, d.name, FALSE)
       ELSE set_each(c, py_iter(d.vars_), 1, r.obj, d.name, TRUE)

LoadSets ==
    { <<>>,
      << <<<<"A">>, IntObj(1)>> >>,
      << <<<<"B">>, StrObj(<<"a">>)>>, <<<<"A">>, IntObj(2)>> >>,
      << <<K___dict__, IntObj(1)>> >>,
      << <<<<"A">>, IntObj(1)>>, <<K___name__, IntObj(2)>> >>,
      << <<K___name__, StrObj(<<"n">>)>> >> }
Selections ==
    {StrObj(<<"a", "l", "l">>), True}
        \cup {ListObj(l) : l \in StringsUpTo({<<"A">>, <<"B">>, K___name__, K___dict__},
                                              MaxItems)}

InitLoad ==
    /\ fs = InitialFs
    /\ lastStored = <<>>
    /\ LoadIdle
    /\ ParserIdle /\ MainIdle /\ FrozenIdle /\ HoldIdle /\ ResultIdle

\* load(name, vars_) with vars_ not None: returns the closure
LoadDecorator(nm, vars_) ==
    /\ decorator' = [name |-> nm, vars_ |-> vars_]
    /\ result' = [op |-> "load_decorator", arg |-> nm,
                  out |-> Return(MethodObj(<<"l", "o", "a", "d", "_", "d", "e", "c",
                                             "o", "r", "a", "t", "o", "r">>)),
                  obj |-> NoObject]
    /\ UNCHANGED <<cls, fs, lastStored, holdVars, parserVars, mainVars, frozenVars>>

\* @decorator  class C: pass  -  the closure applied to a new class
Decorate ==
    /\ decorator # NoDecorator
    /\ cls' = load_decorator(fs, decorator, NewClass).cls
    /\ result' = [op |-> "decorate", arg |-> decorator.name,
                  out |-> load_decorator(fs, decorator, NewClass).out,
                  obj |-> _load_vars(fs, decorator.name, SETTINGS).obj]
    /\ UNCHANGED <<decorator, fs, lastStored, holdVars, parserVars, mainVars,
                   frozenVars>>

NextLoad ==
    \/ \E vars_ \in LoadSets : StoreFile(<<"x">>, vars_)
    \/ \E nm \in {<<"x">>, <<"z">>} : \E vars_ \in Selections : LoadDecorator(nm, vars_)
    \/ Decorate

SpecLoad == InitLoad /\ [][NextLoad]_vars

\* the names assigned on the class c since it was created
AssignedOn(c) ==
    (Keys(c.dict) \ Keys(NewClass.dict))
        \cup (IF c.name # NewClass.name THEN {K___name__} ELSE {})

\* C12: the decorator load(name, vars_) applied to a class, the set of name
\* loading: with vars_ "all" or True the class is returned and every variable
\* of the set is a class attribute with its stored value; with a list of names
\* all in the set the class is returned, the listed variables are class
\* attributes with their stored values and no other variable is set; with a
\* list naming a variable that is not in the set the call fails with
\* VarNotFound.
C12_DecoratorSetsSelected ==
    (result.op = "decorate" /\ result.obj # NoObject) =>
        LET loaded == result.obj._data
            sel == decorator.vars_
            listed == {sel.s[i] : i \in 1..Len(sel.s)}
        IN IF sel \in {StrObj(<<"a", "l", "l">>), True}
           THEN /\ result.out = Return(ClassObj)
                /\ \A k \in Keys(loaded) :
                       type_getattr(cls, k) = Return(Lookup(loaded, k))
           ELSE IF listed \subseteq Keys(loaded)
           THEN /\ result.out = Return(ClassObj)
                /\ \A k \in listed :
                       type_getattr(cls, k) = Return(Lookup(loaded, k))
                /\ AssignedOn(cls) = listed
           ELSE result.out.kind = "raise" /\ result.out.exc = "VarNotFound"

\* no file is stored for nm: its storage location names no regular file
NoStoredFile(f, nm) ==
    LET r == Resolve(f, _get_storage_location(nm, SETTINGS))
    IN r.err # "" \/ r.path \notin DOMAIN f.files

\* C13: hold(name, reset) called for a name with no stored file raises
\* NameNotFound and leaves the list of held sets exactly as it was, with reset
\* or without, so every dynamic lookup gives what it gave before the call.
C13_FailedHoldKeepsList ==
    [][ (result'.op = "hold" /\ NoStoredFile(fs, result'.arg))
            => /\ result'.out.kind = "raise"
               /\ result'.out.exc = "NameNotFound"
               /\ _held_vars' = _held_vars
               /\ \A k \in LookupNames :
                      configvars___getattr__(_held_vars', k)
                          = configvars___getattr__(_held_vars, k) ]_vars

(***************************************************************************)
(* Claims about parse_key_value, checked under SpecParse.                  *)
(***************************************************************************)
AllSpaces(t) == \A i \in 1..Len(t) : t[i] = " "

\* identifier, optional spaces, a single '=', optional space, non-empty rest
AssignmentShape(s) ==
    \E i \in 1..Len(s) : \E j \in i..Len(s) :
        /\ IsIdentifier(SubSeq(s, 1, i))
        /\ AllSpaces(SubSeq(s, i + 1, j))
        /\ j + 2 <= Len(s)
        /\ s[j + 1] = "="
        /\ lstrip_chars(Tail2(s, j + 2), {" "}) = <<>>
             \/ lstrip_chars(Tail2(s, j + 2), {" "})[1] # "="

LeadingIdentifier(s) ==
    SubSeq(s, 1, CHOOSE i \in 1..Len(s) :
                     /\ IsIdentifier(SubSeq(s, 1, i))
                     /\ \A j \in (i + 1)..Len(s) : ~IsIdentifier(SubSeq(s, 1, j)))

\* C8: parse_key_value fails with SyntaxError exactly when the line is not of
\* the shape identifier, optional spaces, single '=', optional space, non-empty
\* rest; for a line of that shape the name returned is the leading identifier.
C8_SyntaxErrorIffNotShape ==
    parse_pc = "done" =>
        /\ (parsed.exc = "SyntaxError") <=> ~AssignmentShape(src)
        /\ (AssignmentShape(src) /\ parsed.kind = "return")
               => parsed.key = LeadingIdentifier(src)

\* C9: for every input line at most one of the three literal patterns matches
\* the literal text, the "regexes match more than one type" error never
\* happens, and a literal text matching none of them fails with TypeError
\* listing int, float, str.
C9_PatternsExclusive ==
    parse_pc = "done" =>
        /\ parsed.exc # "Exception"
        /\ re_line(src) =>
            LET value == parse_value(src)
                hits == {t \in {"int", "float", "str"} :
                            \/ t = "int" /\ re_int(value)
                            \/ t = "float" /\ re_float(value)
                            \/ t = "str" /\ re_str(value)}
            IN /\ Cardinality(hits) <= 1
               /\ hits = {} =>
                    parsed = Raise("TypeError",
                                   "invalid type used. allowed types: int, float, str")
               /\ hits # {} => parsed.kind = "return" /\ parsed.val.t \in hits

\* C9 witness: a line of the right shape whose literal text matches no pattern
\* was parsed and rejected with TypeError.
C9_Witness ==
    /\ parse_pc = "done"
    /\ src = <<"A", " ", "=", " ", "1", "e">>
    /\ parsed.exc = "TypeError"

\* optional sign followed by one or more digits
IsIntLiteral(t) ==
    /\ t # <<>>
    /\ \/ AllDigits(t)
       \/ Len(t) >= 2 /\ t[1] \in {"-", "+"} /\ AllDigits(Tail(t))

RECURSIVE Denoted(_)
Denoted(t) ==
    IF t = <<>> THEN 0
    ELSE IF t[1] = "-" THEN 0 - Denoted(Tail(t))
    ELSE IF t[1] = "+" THEN Denoted(Tail(t))
    ELSE DigitValue(t[1]) * Pow10(Len(t) - 1) + Denoted(Tail(t))

\* C10: for every identifier NAME and integer literal L, the lines "NAME = L"
\* and "NAME=L" both parse to (NAME, n), n the integer L denotes, as an int.
C10_IntLiteralParsed ==
    parse_pc = "done" =>
        \A i \in 1..Len(src) : \A sep \in SampleSeps :
            ( /\ IsIdentifier(SubSeq(src, 1, i))
              /\ i + Len(sep) < Len(src)
              /\ SubSeq(src, i + 1, i + Len(sep)) = sep
              /\ IsIntLiteral(Tail2(src, i + Len(sep) + 1)) )
            => parsed = [kind |-> "return", exc |-> "", msg |-> "",
                         key |-> SubSeq(src, 1, i),
                         val |-> IntObj(Denoted(Tail2(src, i + Len(sep) + 1)))]

\* C10 witness: "_1 = -10" was parsed to ("_1", -10).
C10_Witness ==
    /\ parse_pc = "done"
    /\ src = <<"_", "1", " ", "=", " ", "-", "1", "0">>
    /\ parsed.key = <<"_", "1">>
    /\ parsed.val = IntObj(-10)

\* the whole text wrapped in one kind of quote: it starts and ends with the
\* same quote character
MatchingQuotes(t) == Len(t) >= 2 /\ t[1] \in Quotes /\ t[Len(t)] = t[1]

\* C11: the literal text of a line "NAME = L" or "NAME=L" is classified as a
\* string exactly when it is wrapped in matching quotes, and the value returned
\* is then the text without its two outer quote characters; a text whose
\* opening and closing quotes differ, or a single quote character, is not
\* accepted as a string.
C11_StringIffMatchingQuotes ==
    parse_pc = "done" =>
        \A i \in 1..Len(src) : \A sep \in SampleSeps :
            ( /\ IsIdentifier(SubSeq(src, 1, i))
              /\ i + Len(sep) < Len(src)
              /\ SubSeq(src, i + 1, i + Len(sep)) = sep
              /\ src[i + Len(sep) + 1] \notin {" ", "="} )
            => LET lit == Tail2(src, i + Len(sep) + 1)
               IN /\ (parsed.kind = "return" /\ parsed.val.t = "str")
                        <=> MatchingQuotes(lit)
                  /\ MatchingQuotes(lit)
                        => parsed.val = StrObj(SubSeq(lit, 2, Len(lit) - 1))

====
